---------------------------- MODULE Spec2Model ----------------------------
(***************************************************************************)
(* Subscription Tracker API: the Subscription entity's pre-save lifecycle  *)
(* (models/subscription model), the Auth Service's sign-up / sign-in       *)
(* handlers (controllers/auth.controller.js), the Access Guard             *)
(* (middlewares/auth.middleware.js) in front of the user routes, and the   *)
(* error boundary (middlewares/error.middleware.js).                       *)
(*                                                                         *)
(* Dates are whole days since an epoch; Unset stands for an undefined /    *)
(* missing value of a date path.                                           *)
(***************************************************************************)
EXTENDS Integers, Sequences, FiniteSets, TLC

(***************************************************************************)
(* Bounds of the model.                                                    *)
(***************************************************************************)
MaxDate == 0
MaxSaves == 2

Unset == -1

StartDates == 0..(MaxDate + 1)
EndDates == 0..(MaxDate + 1)

\* frequency: enum ["daily", "weekly", "monthly", "yearly"]
Frequencies == {"daily", "weekly", "monthly", "yearly"}

\* status: enum ["active", "inactive", "cancelled"], default "active"
Statuses == {"active", "inactive", "cancelled"}

DefaultStatus == "active"

\* values a caller can hand in for frequency (one is outside the enum)
FrequencyInputs == Frequencies \cup {"hourly"}

\* a renewal table that takes a month to be 31 days
renewalPeriodLongMonth ==
    [daily |-> 1, weekly |-> 7, monthly |-> 31, yearly |-> 365]

\* const renewalPeriod = { daily: 1, weekly: 7, monthly: 30, yearly: 365 }
renewalPeriod == [daily |-> 1, weekly |-> 7, monthly |-> 30, yearly |-> 365]

\* the instants at which the wall clock is sampled: the epoch and, for each
\* frequency, the latest renewal date (on it, and past every earlier one)
ClockValues == {0} \cup {MaxDate + renewalPeriod[f] : f \in Frequencies}

VARIABLES
    now,        \* the wall clock, new Date()
    doc,        \* the in-memory Subscription document
    store,      \* the stored record of that subscription (schema paths only)
    saves,      \* number of save() calls made on the document
    saveError,  \* outcome of the last save(): "none" or "ValidationError"
    nextCalls,  \* times the pre-save hook called next() in the last save()
    jwtSecret,  \* process.env.JWT_SECRET
    users,      \* the committed documents of the users collection
    pending,    \* the uncommitted inserts of each request's transaction
    session,    \* the state of each request's session and its transaction
    rq,         \* each request: its body, handler position, locals, response
    gq,         \* each request to a user route: header, position, response
    thrown,     \* an error handed to the error boundary
    answer,     \* the response the error boundary sent for it
    listening,  \* the HTTP server accepts requests
    db          \* the state of the mongoose connection

subVars == <<now, doc, store, saves, saveError, nextCalls>>

authVars == <<jwtSecret, users, pending, session, rq>>

guardVars == <<gq>>

errorVars == <<thrown, answer>>

bootVars == <<listening, db>>

\* the state of the user routes, of the error boundary on its own and of
\* the server's startup
edgeVars == <<gq, thrown, answer, listening, db>>

\* a document that has not been constructed or loaded
NoDoc ==
    [state |-> "absent", frequency |-> "daily", status |-> DefaultStatus,
     startDate |-> Unset, endDate |-> Unset, renewalDate |-> Unset]

\* a record that is not in the collection
NoRecord ==
    [present |-> FALSE, frequency |-> "daily", status |-> DefaultStatus,
     startDate |-> Unset, endDate |-> Unset, renewalDate |-> Unset]

(***************************************************************************)
(* Schema validation of the date paths.                                    *)
(***************************************************************************)
\* a < b on two dates; a comparison with undefined is false
DateLessLoose(a, b) == a # Unset /\ b # Unset /\ a <= b

DateLess(a, b) == a # Unset /\ b # Unset /\ a < b

\* required: [true, "... is required"]
Required(v) == v # Unset

\* startDate validator: return value < this.endDate
StartDateValid(d) == Required(d.startDate) /\ DateLess(d.startDate, d.endDate)

\* endDate validator: return value > this.startDate
EndDateValid(d) == Required(d.endDate) /\ DateLess(d.startDate, d.endDate)

\* validation run by save() before the pre-save hook
SubscriptionValid(d) ==
    /\ d.frequency \in Frequencies
    /\ d.status \in Statuses
    /\ StartDateValid(d)
    /\ EndDateValid(d)

(***************************************************************************)
(* subscriptionSchema.pre("save"): the document after the hook body has    *)
(* run at wall-clock time t, and the number of next() calls it made.       *)
(***************************************************************************)
RenewalOf(d) == d.startDate + renewalPeriod[d.frequency]

AssignRenewal(d) ==
    IF d.renewalDate = Unset THEN [d EXCEPT !.renewalDate = RenewalOf(d)]
    ELSE d

\* a check that also downgrades a subscription that renews today
DowngradeStatusOnDue(d, t) ==
    IF d.renewalDate # Unset /\ d.renewalDate <= t
    THEN [d EXCEPT !.status = "inactive"]
    ELSE d

DowngradeStatus(d, t) ==
    IF d.renewalDate # Unset /\ d.renewalDate < t
    THEN [d EXCEPT !.status = "inactive"]
    ELSE d

\* a hook that returns right after the next() of its first branch
PreSaveReturnsEarly(d, t) ==
    IF d.renewalDate = Unset THEN AssignRenewal(d)
    ELSE DowngradeStatus(d, t)

PreSave(d, t) == DowngradeStatus(AssignRenewal(d), t)

\* next() at line 109 (first branch) and next() at line 116
PreSaveNextCalls(d) == IF d.renewalDate = Unset THEN 2 ELSE 1

\* the schema has no renewalDate path: a strict schema stores declared paths
ToStored(d) ==
    [present |-> TRUE, frequency |-> d.frequency, status |-> d.status,
     startDate |-> d.startDate, endDate |-> d.endDate, renewalDate |-> Unset]

\* hydrating a document from a stored record
FromStored(r) ==
    [state |-> "persisted", frequency |-> r.frequency, status |-> r.status,
     startDate |-> r.startDate, endDate |-> r.endDate,
     renewalDate |-> r.renewalDate]

(***************************************************************************)
(* Operations on the subscription.                                         *)
(***************************************************************************)
SubInit ==
    /\ now = 0
    /\ doc = NoDoc
    /\ store = NoRecord
    /\ saves = 0
    /\ saveError = "none"
    /\ nextCalls = 0

\* new Subscription({frequency, status, startDate, endDate, ...})
NewSubscription(f, st, sd, ed) ==
    /\ doc.state = "absent"
    /\ ~store.present
    /\ doc' = [state |-> "new", frequency |-> f, status |-> st,
               startDate |-> sd, endDate |-> ed, renewalDate |-> Unset]
    /\ UNCHANGED <<now, store, saves, saveError, nextCalls, authVars, edgeVars>>

\* Subscription.findById(id): a fresh document hydrated from the store
LoadSubscription ==
    /\ store.present
    /\ saves < MaxSaves
    /\ doc' = FromStored(store)
    /\ UNCHANGED <<now, store, saves, saveError, nextCalls, authVars, edgeVars>>

SetFrequency(f) ==
    /\ doc.state # "absent"
    /\ saves < MaxSaves
    /\ doc' = [doc EXCEPT !.frequency = f]
    /\ UNCHANGED <<now, store, saves, saveError, nextCalls, authVars, edgeVars>>

SetStatus(st) ==
    /\ doc.state # "absent"
    /\ saves < MaxSaves
    /\ doc' = [doc EXCEPT !.status = st]
    /\ UNCHANGED <<now, store, saves, saveError, nextCalls, authVars, edgeVars>>

SetStartDate(sd) ==
    /\ doc.state # "absent"
    /\ saves < MaxSaves
    /\ doc' = [doc EXCEPT !.startDate = sd]
    /\ UNCHANGED <<now, store, saves, saveError, nextCalls, authVars, edgeVars>>

SetEndDate(ed) ==
    /\ doc.state # "absent"
    /\ saves < MaxSaves
    /\ doc' = [doc EXCEPT !.endDate = ed]
    /\ UNCHANGED <<now, store, saves, saveError, nextCalls, authVars, edgeVars>>

\* doc.save(): validation, then the pre-save hook, then the write
SaveSubscription ==
    /\ doc.state # "absent"
    /\ saves < MaxSaves
    /\ saves' = saves + 1
    /\ IF SubscriptionValid(doc)
       THEN /\ doc' = [PreSave(doc, now) EXCEPT !.state = "persisted"]
            /\ store' = ToStored(PreSave(doc, now))
            /\ nextCalls' = PreSaveNextCalls(doc)
            /\ saveError' = "none"
       ELSE /\ saveError' = "ValidationError"
            /\ UNCHANGED <<doc, store, nextCalls>>
    /\ UNCHANGED <<now, authVars, edgeVars>>

\* the wall clock advances
Tick(t) ==
    /\ t > now
    /\ saves < MaxSaves
    /\ now' = t
    /\ UNCHANGED <<doc, store, saves, saveError, nextCalls, authVars, edgeVars>>

(***************************************************************************)
(* Strings are sequences of one-character strings.  Undefined stands for   *)
(* the value undefined of a body field.                                    *)
(***************************************************************************)
Undefined == <<"undefined">>

UpperChars ==
    <<"A", "B", "C", "D", "E", "F", "G", "H", "I", "J", "K", "L", "M",
      "N", "O", "P", "Q", "R", "S", "T", "U", "V", "W", "X", "Y", "Z">>

LowerChars ==
    <<"a", "b", "c", "d", "e", "f", "g", "h", "i", "j", "k", "l", "m",
      "n", "o", "p", "q", "r", "s", "t", "u", "v", "w", "x", "y", "z">>

DigitChars == <<"0", "1", "2", "3", "4", "5", "6", "7", "8", "9">>

Range(q) == {q[i] : i \in DOMAIN q}

UpperSet == Range(UpperChars)
LowerSet == Range(LowerChars)
DigitSet == Range(DigitChars)

IsUpper(c) == c \in UpperSet
IsLower(c) == c \in LowerSet
IsDigit(c) == c \in DigitSet
IsSpace(c) == c = " "

\* the special characters of the password pattern: [@$!%*?&]
PasswordSpecials == {"@", "$", "!", "%", "*", "?", "&"}

\* String.prototype.toLowerCase, one character
LowerOf(c) ==
    IF IsUpper(c)
    THEN LowerChars[CHOOSE i \in DOMAIN UpperChars : UpperChars[i] = c]
    ELSE c

\* lowercase: true
ToLowerCase(str) == [i \in DOMAIN str |-> LowerOf(str[i])]

RECURSIVE TrimLeft(_)
TrimLeft(str) ==
    IF str # <<>> /\ IsSpace(Head(str)) THEN TrimLeft(Tail(str)) ELSE str

RECURSIVE TrimRight(_)
TrimRight(str) ==
    IF str # <<>> /\ IsSpace(str[Len(str)])
    THEN TrimRight(SubSeq(str, 1, Len(str) - 1))
    ELSE str

\* trim: true
Trim(str) == TrimRight(TrimLeft(str))

(***************************************************************************)
(* userSchema: setters and validators of the three paths.                  *)
(***************************************************************************)
MinNameLength == 3
MaxNameLength == 20
MinPasswordLength == 8

\* name: trim
CastName(v) == IF v = Undefined THEN v ELSE Trim(v)

\* email: lowercase, trim (setters also run when a query filter is cast)
CastEmail(v) == IF v = Undefined THEN v ELSE Trim(ToLowerCase(v))

\* /^\S+@\S+\.\S+$/
EmailMatches(v) ==
    /\ \A i \in DOMAIN v : ~IsSpace(v[i])
    /\ \E i, j \in DOMAIN v :
          /\ 1 < i /\ v[i] = "@"
          /\ i + 1 < j /\ v[j] = "."
          /\ j < Len(v)

\* /^(?=.*[a-z])(?=.*[A-Z])(?=.*\d)(?=.*[@$!%*?&])[A-Za-z\d@$!%*?&]{8,}$/
PasswordMatches(v) ==
    /\ \E i \in DOMAIN v : IsLower(v[i])
    /\ \E i \in DOMAIN v : IsUpper(v[i])
    /\ \E i \in DOMAIN v : IsDigit(v[i])
    /\ \E i \in DOMAIN v : v[i] \in PasswordSpecials
    /\ \A i \in DOMAIN v :
          IsLower(v[i]) \/ IsUpper(v[i]) \/ IsDigit(v[i])
             \/ v[i] \in PasswordSpecials
    /\ Len(v) >= MinPasswordLength

\* the messages of the validators that fail on each path
NameErrors(v) ==
    IF v = Undefined \/ v = <<>> THEN <<"username is required">>
    ELSE IF Len(v) < MinNameLength
         THEN <<"username must be at least 3 characters long">>
    ELSE IF Len(v) > MaxNameLength
         THEN <<"username must be less than 20 characters long">>
    ELSE <<>>

EmailErrors(v) ==
    IF v = Undefined \/ v = <<>> THEN <<"email is required">>
    ELSE IF ~EmailMatches(v) THEN <<"invalid email address">>
    ELSE <<>>

PasswordErrors(v) ==
    IF v = Undefined \/ v = <<>> THEN <<"password is required">>
    ELSE IF ~PasswordMatches(v) THEN <<"invalid password">>
    ELSE <<>>

\* the document User.create builds from {name, email, password}
CastUser(id, name, email, password) ==
    [id |-> id, name |-> CastName(name), email |-> CastEmail(email),
     password |-> password]

\* err.errors of the ValidationError of a user document (empty: valid)
UserErrors(u) ==
    NameErrors(u.name) \o EmailErrors(u.email) \o PasswordErrors(u.password)

(***************************************************************************)
(* bcryptjs: "$2b$" version, cost 10 from genSalt(10), then the salt and   *)
(* the digest in bcrypt's base-64 alphabet.                                *)
(***************************************************************************)
BcryptAlphabet == <<".", "/">> \o UpperChars \o LowerChars \o DigitChars

BcryptPrefix == <<"$", "2", "b", "$", "1", "0", "$">>

\* the salts genSalt can return
Salts == {<<"N", "9">>, <<"u", ".">>}

BcryptChars == Range(BcryptAlphabet)

CharCode(c) ==
    IF c \in BcryptChars
    THEN CHOOSE i \in DOMAIN BcryptAlphabet : BcryptAlphabet[i] = c
    ELSE 0

RECURSIVE CodeSum(_)
CodeSum(str) ==
    IF str = <<>> THEN 0 ELSE CharCode(Head(str)) + CodeSum(Tail(str))

\* the digest: a keyed one-way mix of the plaintext and the salt
Digest(plain, salt) ==
    <<BcryptAlphabet[((CodeSum(plain) + 3 * CodeSum(salt))
                         % Len(BcryptAlphabet)) + 1]>>

\* a hash that returns its input
PlainHash(plain, salt) == plain

\* bcrypt.hash(password, salt)
BcryptHash(plain, salt) == BcryptPrefix \o salt \o Digest(plain, salt)

\* the salt embedded in a hash string
SaltOf(hash) == SubSeq(hash, Len(BcryptPrefix) + 1, Len(hash) - 1)

\* a comparison that accepts every password
CompareAccepts(plain, hash) == TRUE

\* bcrypt.compare(password, hash)
BcryptCompare(plain, hash) == BcryptHash(plain, SaltOf(hash)) = hash

(***************************************************************************)
(* Requests, sessions and the users collection.                            *)
(***************************************************************************)
MaxReq == 2

Reqs == 1..MaxReq

TestUser == <<"T", "e", "s", "t", " ", "U", "s", "e", "r">>

TestEmail == <<"t", "@", "e", ".", "c">>
UpperEmail == <<"T", "@", "E", ".", "c">>
OtherEmail == <<"u", "@", "e", ".", "c">>

Password123 == <<"p", "a", "s", "s", "w", "o", "r", "d", "1", "2", "3">>
OtherPassword == <<"P", "a", "s", "s", "w", "0", "r", "d", "!">>

BaseBody == [name |-> TestUser, email |-> TestEmail, password |-> Password123]

\* the sign-up bodies: the base body with at most one field changed
SignupBodies ==
    {BaseBody}
      \cup {[BaseBody EXCEPT !.email = e] : e \in {UpperEmail, OtherEmail}}
      \cup {[BaseBody EXCEPT !.password = p] : p \in {OtherPassword, Undefined}}

\* the sign-in bodies (sign-in reads email and password only)
SigninBodies ==
    {BaseBody}
      \cup {[BaseBody EXCEPT !.password = p] : p \in {OtherPassword, Undefined}}

\* process.env.JWT_SECRET: unset ("") or set
JwtSecrets == {"", "secret"}

NoUser == <<>>
NoToken == <<>>
NoError == <<>>
NoResponse == [status |-> 0, body |-> <<>>]

NoRequest ==
    [kind |-> "none", pc |-> "idle", body |-> BaseBody,
     hashedPassword |-> <<>>, user |-> NoUser, token |-> NoToken,
     error |-> NoError, forwarded |-> FALSE, res |-> NoResponse]

NoSession == [txn |-> "NO_TRANSACTION", ended |-> FALSE]

\* the errors the handlers can catch
IllegalArguments ==
    [name |-> "Error", code |-> 0, statusCode |-> 0, errors |-> <<>>,
     message |-> "Illegal arguments: undefined, string"]

ValidationError(errs) ==
    [name |-> "ValidationError", code |-> 0, statusCode |-> 0,
     errors |-> errs, message |-> "User validation failed"]

DuplicateKey ==
    [name |-> "MongoServerError", code |-> 11000, statusCode |-> 0,
     errors |-> <<>>, message |-> "E11000 duplicate key error"]

WriteConflict ==
    [name |-> "MongoServerError", code |-> 112, statusCode |-> 0,
     errors |-> <<>>, message |-> "Write conflict during plan execution"]

SecretMissing ==
    [name |-> "Error", code |-> 0, statusCode |-> 0, errors |-> <<>>,
     message |-> "secretOrPrivateKey must have a value"]

CommitFailed ==
    [name |-> "MongoServerError", code |-> 251, statusCode |-> 0,
     errors |-> <<>>, message |-> "Transaction has been aborted"]

(***************************************************************************)
(* errorMiddleware(err, req, res, next): the response it sends.            *)
(***************************************************************************)
RECURSIVE JoinMessages(_)
JoinMessages(msgs) ==
    IF msgs = <<>> THEN ""
    ELSE IF Len(msgs) = 1 THEN msgs[1]
    ELSE msgs[1] \o ", " \o JoinMessages(Tail(msgs))

\* a boundary that maps no error kind: the error's own status or 500
ErrorStatusUnmapped(err) ==
    IF err.statusCode # 0 THEN err.statusCode ELSE 500

ErrorStatus(err) ==
    IF err.name = "ValidationError" THEN 400
    ELSE IF err.code = 11000 THEN 400
    ELSE IF err.name = "CastError" THEN 404
    ELSE IF err.statusCode # 0 THEN err.statusCode
    ELSE 500

\* a boundary that hides the message of an error it does not recognize
ErrorMessageHidden(err) ==
    IF err.name = "ValidationError" THEN JoinMessages(err.errors)
    ELSE IF err.code = 11000 THEN "Duplicate field value entered"
    ELSE IF err.name = "CastError" THEN "Resource not found. Invalid"
    ELSE ""

ErrorMessage(err) ==
    IF err.name = "ValidationError" THEN JoinMessages(err.errors)
    ELSE IF err.code = 11000 THEN "Duplicate field value entered"
    ELSE IF err.name = "CastError" THEN "Resource not found. Invalid"
    ELSE err.message

errorMiddleware(err) ==
    [status |-> ErrorStatus(err),
     body |-> [success |-> FALSE,
               message |-> IF ErrorMessage(err) # "" THEN ErrorMessage(err)
                           ELSE "Internal Server Error"]]

(***************************************************************************)
(* The users collection: lookup by email and the unique index on email.    *)
(***************************************************************************)
\* a lookup whose filter is not run through the schema's setters
FindByEmailRaw(email) == {u \in users : u.email = email}

\* User.findOne({ email }): the committed documents that match
FindByEmail(email) == {u \in users : u.email = CastEmail(email)}

\* a collection whose email index is not unique
NoUniqueIndex(u) == FALSE

\* email: unique: true -- a committed document holds the same key
UniqueViolation(u) == \E v \in users : v.email = u.email

\* another open transaction has inserted the same key
KeyConflict(r, u) ==
    \E r2 \in Reqs \ {r} : \E v \in pending[r2] : v.email = u.email

\* a signer that puts the first user's identifier into every token
JwtSignFirst(userId) == [userId |-> 1, key |-> jwtSecret]

\* jwt.sign({userId}, process.env.JWT_SECRET, {expiresIn})
JwtSign(userId) == [userId |-> userId, key |-> jwtSecret]

(***************************************************************************)
(* signup(req, res, next)                                                  *)
(***************************************************************************)
AuthInit ==
    /\ jwtSecret \in JwtSecrets
    /\ users = {}
    /\ pending = [r \in Reqs |-> {}]
    /\ session = [r \in Reqs |-> NoSession]
    /\ rq = [r \in Reqs |-> NoRequest]

\* startSession(); startTransaction(); const {name, email, password} = req.body
SignupStart(r, b) ==
    /\ rq[r].kind = "none"
    /\ rq' = [rq EXCEPT ![r].kind = "signup", ![r].pc = "findOne",
                        ![r].body = b]
    /\ session' = [session EXCEPT ![r].txn = "STARTING_TRANSACTION"]
    /\ UNCHANGED <<jwtSecret, users, pending, subVars, edgeVars>>

\* const existingUser = await User.findOne({ email }); if (existingUser) ...
SignupFindOne(r) ==
    /\ rq[r].kind = "signup" /\ rq[r].pc = "findOne"
    /\ IF FindByEmail(rq[r].body.email) # {}
       THEN rq' = [rq EXCEPT ![r].pc = "done",
                     ![r].res = [status |-> 400,
                                 body |-> [message |-> "User already exists"]]]
       ELSE rq' = [rq EXCEPT ![r].pc = "hash"]
    /\ UNCHANGED <<jwtSecret, users, pending, session, subVars, edgeVars>>

\* const salt = await bcrypt.genSalt(10); await bcrypt.hash(password, salt)
SignupHash(r, salt) ==
    /\ rq[r].kind = "signup" /\ rq[r].pc = "hash"
    /\ IF rq[r].body.password = Undefined
       THEN rq' = [rq EXCEPT ![r].pc = "abort",
                             ![r].error = IllegalArguments]
       ELSE rq' = [rq EXCEPT ![r].pc = "create",
                     ![r].hashedPassword =
                         BcryptHash(rq[r].body.password, salt)]
    /\ UNCHANGED <<jwtSecret, users, pending, session, subVars, edgeVars>>

\* await User.create([{name, email, password: hashedPassword}], { session })
\* and then jwt.sign({userId: newUsers[0]._id}, JWT_SECRET, {expiresIn})
SignupCreate(r) ==
    /\ rq[r].kind = "signup" /\ rq[r].pc = "create"
    /\ LET u == CastUser(r, rq[r].body.name, rq[r].body.email,
                         rq[r].hashedPassword)
       IN  IF UserErrors(u) # <<>>
           THEN /\ rq' = [rq EXCEPT ![r].pc = "abort",
                            ![r].error = ValidationError(UserErrors(u))]
                /\ UNCHANGED <<pending, session>>
           ELSE IF UniqueViolation(u)
           THEN /\ rq' = [rq EXCEPT ![r].pc = "abort",
                                    ![r].error = DuplicateKey]
                /\ session' = [session EXCEPT
                                 ![r].txn = "TRANSACTION_IN_PROGRESS"]
                /\ UNCHANGED pending
           ELSE IF KeyConflict(r, u)
           THEN /\ rq' = [rq EXCEPT ![r].pc = "abort",
                                    ![r].error = WriteConflict]
                /\ session' = [session EXCEPT
                                 ![r].txn = "TRANSACTION_IN_PROGRESS"]
                /\ UNCHANGED pending
           ELSE /\ rq' = IF jwtSecret = ""
                          THEN [rq EXCEPT ![r].pc = "abort", ![r].user = u,
                                          ![r].error = SecretMissing]
                          ELSE [rq EXCEPT ![r].pc = "commit", ![r].user = u,
                                          ![r].token = JwtSign(u.id)]
                /\ pending' = [pending EXCEPT ![r] = {u}]
                /\ session' = [session EXCEPT
                                 ![r].txn = "TRANSACTION_IN_PROGRESS"]
    /\ UNCHANGED <<jwtSecret, users, subVars, edgeVars>>

\* await session.commitTransaction(): the inserts become permanent
SignupCommit(r) ==
    /\ rq[r].kind = "signup" /\ rq[r].pc = "commit"
    /\ users' = users \cup pending[r]
    /\ pending' = [pending EXCEPT ![r] = {}]
    /\ session' = [session EXCEPT ![r].txn = "TRANSACTION_COMMITTED"]
    /\ rq' = [rq EXCEPT ![r].pc = "respond"]
    /\ UNCHANGED <<jwtSecret, subVars, edgeVars>>

\* await session.commitTransaction() throws: the server has dropped the
\* transaction; the driver leaves the session in its committed state
SignupCommitFails(r) ==
    /\ rq[r].kind = "signup" /\ rq[r].pc = "commit"
    /\ pending' = [pending EXCEPT ![r] = {}]
    /\ session' = [session EXCEPT ![r].txn = "TRANSACTION_COMMITTED"]
    /\ rq' = [rq EXCEPT ![r].pc = "abort", ![r].error = CommitFailed]
    /\ UNCHANGED <<jwtSecret, users, subVars, edgeVars>>

\* session.endSession(); res.status(201).json({message, user, token, success})
SignupRespond(r) ==
    /\ rq[r].kind = "signup" /\ rq[r].pc = "respond"
    /\ session' = [session EXCEPT ![r].ended = TRUE]
    /\ rq' = [rq EXCEPT ![r].pc = "done",
                ![r].res = [status |-> 201,
                            body |-> [message |-> "User created successfully",
                                      user |-> rq[r].user,
                                      token |-> rq[r].token,
                                      success |-> TRUE]]]
    /\ UNCHANGED <<jwtSecret, users, pending, subVars, edgeVars>>

\* a catch block that forwards the error without aborting
SignupForwardsWithoutAbort(r) ==
    /\ rq[r].kind = "signup" /\ rq[r].pc = "abort"
    /\ rq' = [rq EXCEPT ![r].pc = "forward"]
    /\ UNCHANGED <<jwtSecret, users, pending, session, subVars, edgeVars>>

\* catch(error): await session.abortTransaction() -- which itself throws
\* once commitTransaction has been called on the session
SignupAbort(r) ==
    /\ rq[r].kind = "signup" /\ rq[r].pc = "abort"
    /\ IF session[r].txn = "TRANSACTION_COMMITTED"
       THEN /\ rq' = [rq EXCEPT ![r].pc = "rejected"]
            /\ UNCHANGED <<pending, session>>
       ELSE /\ rq' = [rq EXCEPT ![r].pc = "forward"]
            /\ pending' = [pending EXCEPT ![r] = {}]
            /\ session' = [session EXCEPT ![r].txn = "TRANSACTION_ABORTED"]
    /\ UNCHANGED <<jwtSecret, users, subVars, edgeVars>>

\* session.endSession(); next(error) -- answered by errorMiddleware
SignupForward(r) ==
    /\ rq[r].kind = "signup" /\ rq[r].pc = "forward"
    /\ session' = [session EXCEPT ![r].ended = TRUE]
    /\ rq' = [rq EXCEPT ![r].pc = "done", ![r].forwarded = TRUE,
                        ![r].res = errorMiddleware(rq[r].error)]
    /\ UNCHANGED <<jwtSecret, users, pending, subVars, edgeVars>>

(***************************************************************************)
(* signin(req, res, next)                                                  *)
(***************************************************************************)
\* startSession(); startTransaction(); const {email, password} = req.body
SigninStart(r, b) ==
    /\ rq[r].kind = "none"
    /\ rq' = [rq EXCEPT ![r].kind = "signin", ![r].pc = "findOne",
                        ![r].body = b]
    /\ session' = [session EXCEPT ![r].txn = "STARTING_TRANSACTION"]
    /\ UNCHANGED <<jwtSecret, users, pending, subVars, edgeVars>>

\* const user = await User.findOne({ email }); if (!user) ...
SigninFindOne(r) ==
    /\ rq[r].kind = "signin" /\ rq[r].pc = "findOne"
    /\ IF FindByEmail(rq[r].body.email) = {}
       THEN rq' = [rq EXCEPT ![r].pc = "done",
                     ![r].res = [status |-> 400,
                                 body |-> [message |-> "User not found"]]]
       ELSE \E u \in FindByEmail(rq[r].body.email) :
               rq' = [rq EXCEPT ![r].pc = "compare", ![r].user = u]
    /\ UNCHANGED <<jwtSecret, users, pending, session, subVars, edgeVars>>

\* await bcrypt.compare(password, user.password), jwt.sign, res.status(200)
SigninCompare(r) ==
    /\ rq[r].kind = "signin" /\ rq[r].pc = "compare"
    /\ IF rq[r].body.password = Undefined
       THEN rq' = [rq EXCEPT ![r].pc = "abort",
                             ![r].error = IllegalArguments]
       ELSE IF ~BcryptCompare(rq[r].body.password, rq[r].user.password)
       THEN rq' = [rq EXCEPT ![r].pc = "done",
                     ![r].res = [status |-> 400,
                                 body |-> [message |-> "Invalid password"]]]
       ELSE IF jwtSecret = ""
       THEN rq' = [rq EXCEPT ![r].pc = "abort", ![r].error = SecretMissing]
       ELSE rq' = [rq EXCEPT ![r].pc = "done",
                     ![r].token = JwtSign(rq[r].user.id),
                     ![r].res =
                        [status |-> 200,
                         body |-> [message |-> "User signed in successfully",
                                   data |-> [user |-> rq[r].user,
                                             token |-> JwtSign(rq[r].user.id),
                                             success |-> TRUE]]]]
    /\ UNCHANGED <<jwtSecret, users, pending, session, subVars, edgeVars>>

\* catch (error) { await session.abortTransaction(); } -- and nothing else
SigninAbort(r) ==
    /\ rq[r].kind = "signin" /\ rq[r].pc = "abort"
    /\ session' = [session EXCEPT ![r].txn = "TRANSACTION_ABORTED"]
    /\ rq' = [rq EXCEPT ![r].pc = "returned"]
    /\ UNCHANGED <<jwtSecret, users, pending, subVars, edgeVars>>

(***************************************************************************)
(* JSON Web Tokens as the strings a client carries: the payload (the user  *)
(* identifier), a dot, and the signature of the payload under the key.     *)
(***************************************************************************)
\* the identifiers of the users that earlier sign-ups have created
UserIds == {1, 2}

\* stands for a string that does not cast to an ObjectId
MalformedId == 0

Payload(userId) == <<DigitChars[userId + 1]>>

KeyCode(key) ==
    CASE key = "secret" -> 17
      [] key = "" -> 0
      [] OTHER -> 5

\* the signature: a keyed mix of the payload
Mac(payload, key) ==
    BcryptAlphabet[((CodeSum(payload) + KeyCode(key)) % Len(BcryptAlphabet)) + 1]

\* the compact serialization of a token
TokenString(t) ==
    Payload(t.userId) \o <<".">> \o <<Mac(Payload(t.userId), t.key)>>

JwtMalformed ==
    [name |-> "JsonWebTokenError", code |-> 0, statusCode |-> 0,
     errors |-> <<>>, message |-> "jwt malformed"]

InvalidSignature ==
    [name |-> "JsonWebTokenError", code |-> 0, statusCode |-> 0,
     errors |-> <<>>, message |-> "invalid signature"]

TokenExpired ==
    [name |-> "TokenExpiredError", code |-> 0, statusCode |-> 0,
     errors |-> <<>>, message |-> "jwt expired"]

KeyMissing ==
    [name |-> "JsonWebTokenError", code |-> 0, statusCode |-> 0,
     errors |-> <<>>, message |-> "secret or public key must be provided"]

WellFormed(str) ==
    /\ Len(str) = 3 /\ str[2] = "."
    /\ \E id \in 1..9 : str[1] = DigitChars[id + 1]

\* a verification that does not look at the signature
JwtVerifyUnsigned(str, key, expired) ==
    IF ~WellFormed(str) THEN [error |-> JwtMalformed, userId |-> 0]
    ELSE [error |-> NoError,
          userId |-> CHOOSE id \in 1..9 : str[1] = DigitChars[id + 1]]

\* jwt.verify(token, secretOrPublicKey): the decoded payload, or the error
\* it throws; expired tells whether the token's exp has passed
JwtVerify(str, key, expired) ==
    IF ~WellFormed(str) THEN [error |-> JwtMalformed, userId |-> 0]
    ELSE IF key = "" THEN [error |-> KeyMissing, userId |-> 0]
    ELSE IF str[3] # Mac(<<str[1]>>, key)
         THEN [error |-> InvalidSignature, userId |-> 0]
    ELSE IF expired THEN [error |-> TokenExpired, userId |-> 0]
    ELSE [error |-> NoError,
          userId |-> CHOOSE id \in 1..9 : str[1] = DigitChars[id + 1]]

(***************************************************************************)
(* The Authorization header.                                               *)
(***************************************************************************)
Bearer == <<"B", "e", "a", "r", "e", "r">>

Basic == <<"B", "a", "s", "i", "c">>

\* str.startsWith(prefix)
StartsWith(str, prefix) ==
    Len(str) >= Len(prefix) /\ SubSeq(str, 1, Len(prefix)) = prefix

\* str.split(" ")
RECURSIVE Split(_)
Split(str) ==
    IF \A i \in DOMAIN str : str[i] # " " THEN <<str>>
    ELSE LET i == CHOOSE k \in DOMAIN str :
                     str[k] = " " /\ \A j \in 1..(k - 1) : str[j] # " "
         IN  <<SubSeq(str, 1, i - 1)>> \o Split(SubSeq(str, i + 1, Len(str)))

\* a guard that takes the second word of any header as the token
SecondWord(header) ==
    IF header # Undefined /\ Len(Split(header)) >= 2
    THEN Split(header)[2] ELSE Undefined

\* let token; if (authorization && authorization.startsWith("Bearer"))
\*     token = authorization.split(" ")[1]
BearerToken(header) ==
    IF header # Undefined /\ header # <<>> /\ StartsWith(header, Bearer)
    THEN IF Len(Split(header)) >= 2 THEN Split(header)[2] ELSE Undefined
    ELSE Undefined

\* !token
Falsy(token) == token = Undefined \/ token = <<>>

\* a token of a user, signed by another party
Forged(userId) == TokenString([userId |-> userId, key |-> "forged"])

Garbage == <<"z", "z">>

\* the headers a client sends: none, another scheme, the bare scheme, a
\* token that sign-up or sign-in issued, a forged token, garbage
Headers ==
    {Undefined, Bearer, Basic \o <<" ">> \o TokenString(JwtSign(1)),
     Bearer \o <<" ">> \o Forged(1), Bearer \o <<" ">> \o Garbage}
      \cup {Bearer \o <<" ">> \o TokenString(JwtSign(id)) : id \in UserIds}

\* the :id of GET /users/:id
ParamIds == UserIds \cup {MalformedId}

(***************************************************************************)
(* The user routes: GET /users/ (getUserProfile) and GET /users/:id        *)
(* (authorize, getSingleUser).                                             *)
(***************************************************************************)
CastError ==
    [name |-> "CastError", code |-> 0, statusCode |-> 0, errors |-> <<>>,
     message |-> "Cast to ObjectId failed"]

Unauthorized == [status |-> 401, body |-> [message |-> "Unauthorized"]]

AuthenticationRequired ==
    [status |-> 401,
     body |-> [message |-> "Authentication required. Please login first.",
               success |-> FALSE]]

NotFound ==
    [status |-> 404, body |-> [message |-> "User not found",
                               success |-> FALSE]]

Fetched(msg, user) ==
    [status |-> 200,
     body |-> [message |-> msg, data |-> [user |-> user, success |-> TRUE]]]

NoGuarded ==
    [route |-> "none", pc |-> "idle", header |-> Undefined,
     id |-> MalformedId, decoded |-> 0, user |-> NoUser, handled |-> FALSE,
     error |-> NoError, forwarded |-> FALSE, res |-> NoResponse]

\* a lookup that returns a stored user whatever the identifier
FindAny(id) == users

\* User.findById(id): the stored documents with that _id
FindById(id) == {u \in users : u.id = id}

\* a projection that keeps every path
SelectAll(u) == u

\* .select("-password")
ExcludePassword(u) == [f \in DOMAIN u \ {"password"} |-> u[f]]

\* the documents earlier sign-ups have committed
KnownUsers ==
    {CastUser(1, TestUser, TestEmail, BcryptHash(Password123, <<"N", "9">>)),
     CastUser(2, TestUser, OtherEmail, BcryptHash(Password123, <<"N", "9">>))}

\* the contents of the users collection when the requests arrive
StoreContents == {K \in SUBSET KnownUsers : K # {}}

GuardIdle == gq = [r \in Reqs |-> NoGuarded]

\* GET /users/ arrives: the route has no guard, getUserProfile runs at once
\* and finds no req.user
ProfileRequest(r, header) ==
    /\ gq[r].route = "none"
    /\ gq' = [gq EXCEPT ![r] =
                IF gq[r].user = NoUser
                THEN [@ EXCEPT !.route = "profile", !.header = header,
                               !.handled = TRUE, !.pc = "done",
                               !.res = AuthenticationRequired]
                ELSE [@ EXCEPT !.route = "profile", !.header = header,
                               !.handled = TRUE, !.pc = "fetch",
                               !.id = gq[r].user.id]]
    /\ UNCHANGED <<subVars, authVars, errorVars, bootVars>>

\* GET /users/:id arrives
SingleRequest(r, header) ==
    /\ gq[r].route = "none"
    /\ gq' = [gq EXCEPT ![r].route = "single", ![r].pc = "authorize",
                        ![r].header = header]
    /\ UNCHANGED <<subVars, authVars, errorVars, bootVars>>

\* authorize, up to its await: the token is taken from the header and
\* verified; a thrown error goes to next(error)
Authorize(r, expired) ==
    /\ gq[r].route = "single" /\ gq[r].pc = "authorize"
    /\ LET token == BearerToken(gq[r].header)
           decoded == JwtVerify(token, jwtSecret, expired)
       IN  gq' = [gq EXCEPT ![r] =
                IF Falsy(token)
                THEN [@ EXCEPT !.pc = "done", !.res = Unauthorized]
                ELSE IF decoded.error # NoError
                THEN [@ EXCEPT !.pc = "done", !.error = decoded.error,
                               !.forwarded = TRUE,
                               !.res = errorMiddleware(decoded.error)]
                ELSE [@ EXCEPT !.pc = "lookup",
                               !.decoded = decoded.userId]]
    /\ UNCHANGED <<subVars, authVars, errorVars, bootVars>>

\* a guard that lets the request through whether or not the user exists
AuthorizeLookupLenient(r, id) ==
    /\ gq[r].route = "single" /\ gq[r].pc = "lookup"
    /\ gq' = [gq EXCEPT ![r].pc = "fetch", ![r].handled = TRUE, ![r].id = id]
    /\ UNCHANGED <<subVars, authVars, errorVars, bootVars>>

\* a guard that saves the document it loaded, its password blanked
AuthorizeLookupSaves(r, id) ==
    /\ gq[r].route = "single" /\ gq[r].pc = "lookup"
    /\ IF FindById(gq[r].decoded) = {}
       THEN /\ gq' = [gq EXCEPT ![r].pc = "done", ![r].res = Unauthorized]
            /\ UNCHANGED users
       ELSE \E u \in FindById(gq[r].decoded) :
               /\ gq' = [gq EXCEPT ![r].pc = "fetch", ![r].handled = TRUE,
                                   ![r].user = ExcludePassword(u),
                                   ![r].id = id]
               /\ users' = (users \ {u}) \cup {[u EXCEPT !.password = <<>>]}
    /\ UNCHANGED <<subVars, jwtSecret, pending, session, rq, errorVars,
                   bootVars>>

\* const user = await User.findById(decoded.userId).select("-password");
\* if (!user) 401; req.user = user; next() -- getSingleUser starts and
\* reads req.params.id (id)
AuthorizeLookup(r, id) ==
    /\ gq[r].route = "single" /\ gq[r].pc = "lookup"
    /\ IF FindById(gq[r].decoded) = {}
       THEN gq' = [gq EXCEPT ![r].pc = "done", ![r].res = Unauthorized]
       ELSE \E u \in FindById(gq[r].decoded) :
               gq' = [gq EXCEPT ![r].pc = "fetch", ![r].handled = TRUE,
                                ![r].user = ExcludePassword(u),
                                ![r].id = id]
    /\ UNCHANGED <<subVars, authVars, errorVars, bootVars>>

\* the handler's await User.findById(...) and its response:
\* getSingleUser reads req.params.id and excludes the password,
\* getUserProfile reads req.user.id
UserFetch(r) ==
    /\ gq[r].route \in {"single", "profile"} /\ gq[r].pc = "fetch"
    /\ IF gq[r].id = MalformedId
       THEN gq' = [gq EXCEPT ![r].pc = "done", ![r].error = CastError,
                             ![r].forwarded = TRUE,
                             ![r].res = errorMiddleware(CastError)]
       ELSE IF FindById(gq[r].id) = {}
       THEN gq' = [gq EXCEPT ![r].pc = "done", ![r].res = NotFound]
       ELSE \E u \in FindById(gq[r].id) :
               gq' = [gq EXCEPT ![r].pc = "done",
                        ![r].res =
                           IF gq[r].route = "single"
                           THEN Fetched("User fetched successfully",
                                        ExcludePassword(u))
                           ELSE Fetched("User profile fetched successfully",
                                        u)]
    /\ UNCHANGED <<subVars, authVars, errorVars, bootVars>>

(***************************************************************************)
(* The error boundary on its own: an error is handed to errorMiddleware.   *)
(***************************************************************************)
ErrorNames ==
    {"Error", "CastError", "ValidationError", "MongoServerError",
     "JsonWebTokenError"}

ErrorCodes == {0, 112, 11000}

StatusCodes == {0, 401, 409}

FieldMessages ==
    {<<>>, <<"email is required">>,
     <<"username is required", "invalid password">>}

ErrorTexts == {"", "boom"}

\* the errors a handler can forward
ErrorInputs ==
    [name : ErrorNames, code : ErrorCodes, statusCode : StatusCodes,
     errors : FieldMessages, message : ErrorTexts]

ErrorIdle == thrown = NoError /\ answer = NoResponse

\* next(error) reaches errorMiddleware, which sends the response
HandleError ==
    /\ thrown # NoError /\ answer = NoResponse
    /\ answer' = errorMiddleware(thrown)
    /\ UNCHANGED <<thrown, subVars, authVars, guardVars, bootVars>>

(***************************************************************************)
(* signout(req, res, next) and the server's startup (app.js).              *)
(***************************************************************************)
\* export const signout = async (req, res, next) => { }: the body is empty,
\* the handler returns
Signout(r) ==
    /\ rq[r].kind = "none"
    /\ rq' = [rq EXCEPT ![r].kind = "signout", ![r].pc = "returned"]
    /\ UNCHANGED <<jwtSecret, users, pending, session, subVars, edgeVars>>

\* the server is up and the connection is established
Serving == listening = TRUE /\ db = "connected"

\* the process has started: nothing listens, nothing is connected
Booting == listening = FALSE /\ db = "disconnected"

\* app.listen(PORT, async () => { ...; await connectDB(); }): the server
\* listens, then its callback starts mongoose.connect
Listen ==
    /\ ~listening
    /\ listening' = TRUE
    /\ db' = "connecting"
    /\ UNCHANGED <<subVars, authVars, guardVars, errorVars>>

\* await mongoose.connect(MONGODB_URL) resolves
Connected ==
    /\ db = "connecting"
    /\ db' = "connected"
    /\ UNCHANGED <<listening, subVars, authVars, guardVars, errorVars>>

\* mongoose.connect rejects: connectDB logs the error and returns
ConnectFails ==
    /\ db = "connecting"
    /\ db' = "failed"
    /\ UNCHANGED <<listening, subVars, authVars, guardVars, errorVars>>

\* a listening server hands POST /auth/sign-out to signout
ServeSignout(r) == listening /\ Signout(r)

\* a listening server hands GET /users/ to getUserProfile
ServeProfile(r, header) == listening /\ ProfileRequest(r, header)

(***************************************************************************)
(* Specifications.                                                         *)
(***************************************************************************)
vars == <<now, doc, store, saves, saveError, nextCalls,
          jwtSecret, users, pending, session, rq, gq, thrown, answer,
          listening, db>>

Init == SubInit /\ AuthInit /\ GuardIdle /\ ErrorIdle /\ Serving

SubNext ==
    \/ \E f \in FrequencyInputs, st \in Statuses,
          sd \in StartDates \cup {Unset}, ed \in EndDates \cup {Unset} :
            NewSubscription(f, st, sd, ed)
    \/ LoadSubscription
    \/ \E f \in FrequencyInputs : SetFrequency(f)
    \/ \E st \in Statuses : SetStatus(st)
    \/ \E sd \in StartDates : SetStartDate(sd)
    \/ \E ed \in EndDates : SetEndDate(ed)
    \/ SaveSubscription
    \/ \E t \in ClockValues : Tick(t)

AuthNext ==
    \/ \E r \in Reqs, b \in SignupBodies : SignupStart(r, b)
    \/ \E r \in Reqs : SignupFindOne(r)
    \/ \E r \in Reqs, salt \in Salts : SignupHash(r, salt)
    \/ \E r \in Reqs : SignupCreate(r)
    \/ \E r \in Reqs : SignupCommit(r)
    \/ \E r \in Reqs : SignupCommitFails(r)
    \/ \E r \in Reqs : SignupRespond(r)
    \/ \E r \in Reqs : SignupAbort(r)
    \/ \E r \in Reqs : SignupForward(r)
    \/ \E r \in Reqs, b \in SigninBodies : SigninStart(r, b)
    \/ \E r \in Reqs : SigninFindOne(r)
    \/ \E r \in Reqs : SigninCompare(r)
    \/ \E r \in Reqs : SigninAbort(r)

\* the subscription lifecycle starts with the environment configured (the
\* signing secret plays no part in it)
InitConfigured == Init /\ jwtSecret = "secret"

SubSpec == InitConfigured /\ [][SubNext]_vars

\* the Auth Service under concurrent requests
AuthSpec == Init /\ [][AuthNext]_vars

\* the same, with the event loop running every continuation that is ready
AuthFairSpec == AuthSpec /\ WF_vars(AuthNext)

\* the user routes, with the environment configured and a populated store
GuardInit ==
    /\ SubInit /\ ErrorIdle /\ GuardIdle /\ Serving
    /\ jwtSecret = "secret"
    /\ users \in StoreContents
    /\ pending = [r \in Reqs |-> {}]
    /\ session = [r \in Reqs |-> NoSession]
    /\ rq = [r \in Reqs |-> NoRequest]

GuardNext ==
    \/ \E r \in Reqs, h \in Headers : ProfileRequest(r, h)
    \/ \E r \in Reqs, h \in Headers : SingleRequest(r, h)
    \/ \E r \in Reqs, expired \in BOOLEAN : Authorize(r, expired)
    \/ \E r \in Reqs, id \in ParamIds : AuthorizeLookup(r, id)
    \/ \E r \in Reqs : UserFetch(r)

GuardSpec == GuardInit /\ [][GuardNext]_vars

\* the error boundary applied to each error
ErrorInit ==
    /\ SubInit /\ AuthInit /\ GuardIdle /\ Serving
    /\ jwtSecret = "secret"
    /\ thrown \in ErrorInputs
    /\ answer = NoResponse

ErrorNext == HandleError

ErrorSpec == ErrorInit /\ [][ErrorNext]_vars

\* the guarded route and sign-in side by side, each request being one or
\* the other, over a populated store
AccessSignin(r, b) == gq[r].route = "none" /\ SigninStart(r, b)

AccessSingle(r, header) == rq[r].kind = "none" /\ SingleRequest(r, header)

AccessNext ==
    \/ \E r \in Reqs, b \in SigninBodies : AccessSignin(r, b)
    \/ \E r \in Reqs : SigninFindOne(r)
    \/ \E r \in Reqs : SigninCompare(r)
    \/ \E r \in Reqs : SigninAbort(r)
    \/ \E r \in Reqs, h \in Headers : AccessSingle(r, h)
    \/ \E r \in Reqs, expired \in BOOLEAN : Authorize(r, expired)
    \/ \E r \in Reqs, id \in ParamIds : AuthorizeLookup(r, id)
    \/ \E r \in Reqs : UserFetch(r)

AccessSpec == GuardInit /\ [][AccessNext]_vars

\* the server from the start of the process, with the event loop running
\* every continuation that is ready
ServerInit ==
    /\ SubInit /\ AuthInit /\ GuardIdle /\ ErrorIdle /\ Booting
    /\ jwtSecret = "secret"

ServerNext ==
    \/ Listen
    \/ Connected
    \/ ConnectFails
    \/ \E r \in Reqs : ServeSignout(r)
    \/ \E r \in Reqs, h \in Headers : ServeProfile(r, h)

ServerSpec == ServerInit /\ [][ServerNext]_vars /\ WF_vars(ServerNext)

(***************************************************************************)
(* Properties of the subscription lifecycle (SubSpec).                     *)
(***************************************************************************)
\* a step that is a save() whose write went through
Persisted == saves' = saves + 1 /\ saveError' = "none"

\* C1: a persist of a subscription whose renewal date is unset sets the
\* renewal date to start date + 1 day (daily), + 7 (weekly), + 30 (monthly),
\* + 365 (yearly).
C1_RenewalDerived ==
    [][(Persisted /\ doc.renewalDate = Unset) =>
          doc'.renewalDate =
             doc.startDate + (CASE doc.frequency = "daily" -> 1
                                [] doc.frequency = "weekly" -> 7
                                [] doc.frequency = "monthly" -> 30
                                [] doc.frequency = "yearly" -> 365)]_vars

\* a first persist of a monthly subscription has derived start + 30
C1_Witness ==
    /\ saves = 1 /\ saveError = "none" /\ nextCalls = 2
    /\ doc.state = "persisted" /\ doc.frequency = "monthly"
    /\ doc.startDate = 0 /\ doc.renewalDate = 30

\* C2 (as claimed): once a persist has derived the renewal date, the stored
\* subscription carries it and every later persist leaves the stored
\* renewal date unchanged.
C2_StoredRenewalDateKept ==
    [][Persisted =>
          /\ store'.renewalDate = doc'.renewalDate
          /\ (store.present => store'.renewalDate = store.renewalDate)]_vars

\* C3: on every persist, if the computed-or-stored renewal date is before
\* the current time, the persisted status is "inactive", whatever status
\* the caller requested.
C3_InactiveWhenPast ==
    [][(Persisted /\ doc'.renewalDate < now) =>
          (store'.status = "inactive" /\ doc'.status = "inactive")]_vars

\* a first persist (which computed the renewal date) of a subscription
\* whose renewal date was already past has stored it as inactive
C3_Witness ==
    /\ saves = 1 /\ saveError = "none" /\ nextCalls = 2
    /\ doc.renewalDate # Unset /\ doc.renewalDate < now
    /\ store.present /\ store.status = "inactive"

\* C4: a persist is rejected with a validation failure whenever
\* startDate >= endDate (equal dates and a missing end date included), and
\* nothing is written.
C4_RejectedUnlessStartBeforeEnd ==
    [][(saves' = saves + 1 /\ doc.startDate # Unset
          /\ (doc.endDate = Unset \/ doc.startDate >= doc.endDate)) =>
          (saveError' = "ValidationError" /\ store' = store)]_vars

\* a save() of a document with equal start and end dates was rejected
C4_Witness ==
    /\ saves >= 1 /\ saveError = "ValidationError"
    /\ doc.startDate # Unset /\ doc.startDate = doc.endDate
    /\ ~store.present

(***************************************************************************)
(* Properties of sign-up and sign-in (AuthSpec).                           *)
(***************************************************************************)
AlreadyExists == [status |-> 400, body |-> [message |-> "User already exists"]]

\* C5: a sign-up whose email is already present in the user store fails
\* with 400 "User already exists", issues no token and leaves the stored
\* users unchanged.
C5_ExistingEmailRejected ==
    [][\A r \in Reqs :
          (/\ rq[r].kind = "signup" /\ rq[r].pc = "findOne"
           /\ rq'[r].pc # "findOne"
           /\ \E u \in users :
                 u.email = Trim(ToLowerCase(rq[r].body.email))) =>
             (/\ rq'[r].pc = "done" /\ rq'[r].res = AlreadyExists
              /\ rq'[r].token = NoToken /\ users' = users
              /\ pending' = pending)]_vars

\* a sign-up that differs from a stored email only in case was answered
\* with 400 "User already exists"
C5_Witness ==
    \E r \in Reqs :
       /\ rq[r].kind = "signup" /\ rq[r].pc = "done"
       /\ rq[r].res = AlreadyExists /\ rq[r].body.email = UpperEmail
       /\ \E u \in users : u.email = TestEmail

\* the sign-up requests that were answered with 201
Succeeded == {r \in Reqs : rq[r].kind = "signup" /\ rq[r].res.status = 201}

\* C6: of the concurrent sign-ups that carry the same email at most one
\* succeeds, and no two stored users share an email.
C6_UniqueEmail ==
    /\ \A u, v \in users : u.email = v.email => u = v
    /\ \A r1, r2 \in Succeeded :
          Trim(ToLowerCase(rq[r1].body.email))
             = Trim(ToLowerCase(rq[r2].body.email)) => r1 = r2

\* two sign-ups with one email both passed the existence check; one was
\* answered 201, the other lost at the unique index
C6_Witness ==
    \E r1, r2 \in Reqs :
       /\ r1 # r2 /\ r1 \in Succeeded
       /\ rq[r2].kind = "signup"
       /\ rq[r2].error \in {DuplicateKey, WriteConflict}
       /\ rq[r2].res.status = 400
       /\ Cardinality(users) = 1

C8_ValidSignupSucceeds ==
    \A r \in Reqs :
       (/\ rq[r].kind = "signup" /\ rq[r].pc = "done"
        /\ jwtSecret # ""
        /\ rq[r].body.name = TestUser
        /\ rq[r].body.email \in {TestEmail, UpperEmail, OtherEmail}
        /\ rq[r].body.password \in {Password123, OtherPassword}
        /\ \A r2 \in Reqs \ {r} : rq[r2].kind = "none") =>
          /\ rq[r].res.status = 201
          /\ rq[r].res.body.token # NoToken
          /\ Cardinality({u \in users : u.id = r}) = 1
          /\ \A u \in users : u.id = r => u.password = rq[r].hashedPassword

\* C9 (as claimed): the user object of a successful sign-up response (201)
\* and of a successful sign-in response (200) has no password field.
C9_NoPasswordInResponse ==
    \A r \in Reqs :
       /\ rq[r].res.status = 201 =>
             "password" \notin DOMAIN rq[r].res.body.user
       /\ rq[r].res.status = 200 =>
             "password" \notin DOMAIN rq[r].res.body.data.user

\* C10: the password field of every stored user holds the salted hash of
\* the plaintext its sign-up request supplied, never the plaintext.
C10_StoredPasswordIsHash ==
    \A u \in users :
       /\ rq[u.id].kind = "signup"
       /\ rq[u.id].body.password # Undefined
       /\ u.password # rq[u.id].body.password
       /\ \E salt \in Salts :
             u.password
                = BcryptPrefix \o salt \o Digest(rq[u.id].body.password, salt)

\* two users registered with different plaintexts are stored with hashes
C10_Witness ==
    \E u, v \in users :
       /\ rq[u.id].body.password = Password123
       /\ rq[v.id].body.password = OtherPassword
       /\ u.password # Password123 /\ v.password # OtherPassword

\* the plaintext is the one the hash was made from
Verifies(plain, hash) ==
    \E salt \in Salts : hash = BcryptPrefix \o salt \o Digest(plain, salt)

UserNotFound == [status |-> 400, body |-> [message |-> "User not found"]]

InvalidPassword == [status |-> 400, body |-> [message |-> "Invalid password"]]

\* C11: sign-in responds 400 "User not found" when no stored user has the
\* given email, 400 "Invalid password" when the plaintext does not verify
\* against the stored hash, and 200 with a token encoding that user's
\* identifier when it does verify.
C11_SigninOutcomes ==
    [][\A r \in Reqs :
          /\ (/\ rq[r].kind = "signin" /\ rq[r].pc = "findOne"
              /\ rq'[r].pc # "findOne"
              /\ \A u \in users : u.email # rq[r].body.email) =>
                (rq'[r].pc = "done" /\ rq'[r].res = UserNotFound)
          /\ (/\ rq[r].kind = "signin" /\ rq[r].pc = "compare"
              /\ rq'[r].pc # "compare"
              /\ rq[r].body.password # Undefined
              /\ ~Verifies(rq[r].body.password, rq[r].user.password)) =>
                (rq'[r].pc = "done" /\ rq'[r].res = InvalidPassword)
          /\ (/\ rq[r].kind = "signin" /\ rq[r].pc = "compare"
              /\ rq'[r].pc # "compare"
              /\ jwtSecret # ""
              /\ rq[r].body.password # Undefined
              /\ Verifies(rq[r].body.password, rq[r].user.password)) =>
                (/\ rq'[r].pc = "done" /\ rq'[r].res.status = 200
                 /\ rq[r].user \in users
                 /\ rq[r].user.email = rq[r].body.email
                 /\ rq'[r].res.body.data.token.userId = rq[r].user.id
                 /\ rq'[r].res.body.data.token.key = jwtSecret)]_vars

\* a sign-in with the password of the user who signed up was answered 200
\* with a token for that user
C11_Witness ==
    \E r \in Reqs :
       /\ rq[r].kind = "signin" /\ rq[r].res.status = 200
       /\ rq[r].res.body.data.token.userId = rq[r].user.id
       /\ rq[r].user \in users
       /\ Verifies(rq[r].body.password, rq[r].user.password)

\* C12 (as claimed): whenever an error is raised while handling a sign-in
\* request, the transaction is aborted and the error is forwarded to the
\* error boundary, so that the request eventually receives a response.
C12_SigninErrorForwarded ==
    \A r \in Reqs :
       (rq[r].kind = "signin" /\ rq[r].error # NoError) ~>
          (/\ session[r].txn = "TRANSACTION_ABORTED"
           /\ rq[r].forwarded /\ rq[r].res # NoResponse)

(***************************************************************************)
(* Properties of the Access Guard and the user routes (GuardSpec).         *)
(***************************************************************************)
\* the header a client builds from a token string
BearerHeader(str) == <<"B", "e", "a", "r", "e", "r", " ">> \o str

\* the token sign-up or sign-in issues for a user identifier
IssuedFor(userId) == TokenString([userId |-> userId, key |-> jwtSecret])

\* the header is absent, does not start with "Bearer", or ends at the prefix
LacksToken(h) ==
    \/ h = Undefined
    \/ Len(h) < 6
    \/ SubSeq(h, 1, 6) # <<"B", "e", "a", "r", "e", "r">>
    \/ Len(h) <= 7

\* the requests to the guarded route that the guard has dealt with
Guarded ==
    {r \in Reqs : gq[r].route = "single" /\ gq[r].pc \in {"fetch", "done"}}

\* C13: for every request whose Authorization header is absent, does not
\* start with "Bearer", or carries no token after the prefix, the Access
\* Guard responds 401 Unauthorized and the protected handler is never
\* invoked for that request.
C13_NoTokenUnauthorized ==
    \A r \in Reqs :
       (/\ gq[r].route = "single" /\ gq[r].pc # "authorize"
        /\ LacksToken(gq[r].header)) =>
          /\ gq[r].pc = "done" /\ gq[r].res = Unauthorized
          /\ ~gq[r].handled

\* a request with a Basic header that carries a good token, and one with
\* the bare scheme, were answered 401 without reaching the handler
C13_Witness ==
    \E r1, r2 \in Reqs :
       /\ gq[r1].route = "single" /\ gq[r1].res = Unauthorized
       /\ gq[r1].header = <<"B", "a", "s", "i", "c", " ">> \o IssuedFor(1)
       /\ ~gq[r1].handled
       /\ gq[r2].route = "single" /\ gq[r2].res = Unauthorized
       /\ gq[r2].header = <<"B", "e", "a", "r", "e", "r">>
       /\ ~gq[r2].handled

\* C14: for every request whose token verifies but whose encoded user
\* identifier matches no stored user, the Access Guard responds 401
\* Unauthorized, attaches no identity and does not invoke the protected
\* handler.
C14_UnknownUserUnauthorized ==
    \A r \in Reqs : \A id \in UserIds :
       (/\ gq[r].route = "single" /\ gq[r].pc \notin {"authorize", "lookup"}
        /\ gq[r].header = BearerHeader(IssuedFor(id))
        /\ gq[r].error # TokenExpired
        /\ \A u \in users : u.id # id) =>
          /\ gq[r].pc = "done" /\ gq[r].res = Unauthorized
          /\ gq[r].user = NoUser /\ ~gq[r].handled

\* a token of user 2 verified while only user 1 is stored: answered 401
C14_Witness ==
    \E r \in Reqs :
       /\ gq[r].route = "single" /\ gq[r].pc = "done"
       /\ gq[r].header = BearerHeader(IssuedFor(2))
       /\ gq[r].decoded = 2 /\ \A u \in users : u.id # 2
       /\ gq[r].res = Unauthorized /\ ~gq[r].handled

\* C15: for every request carrying a token that was issued by sign-up or
\* sign-in for a user u who still exists, the Access Guard attaches exactly
\* user u (without the password hash) to the request and lets it proceed;
\* under concurrent requests each request gets the identity of its own
\* token, never another request's.
C15_OwnIdentityAttached ==
    \A r \in Reqs : \A u \in users :
       (/\ gq[r].route = "single" /\ gq[r].pc \notin {"authorize", "lookup"}
        /\ gq[r].header = BearerHeader(IssuedFor(u.id))
        /\ gq[r].error # TokenExpired) =>
          /\ gq[r].handled
          /\ gq[r].user = [id |-> u.id, name |-> u.name, email |-> u.email]
          /\ gq[r].res # Unauthorized

\* two concurrent requests with the tokens of two users each carry their
\* own user
C15_Witness ==
    \E r1, r2 \in Reqs :
       /\ r1 # r2 /\ r1 \in Guarded /\ r2 \in Guarded
       /\ gq[r1].header = BearerHeader(IssuedFor(1))
       /\ gq[r2].header = BearerHeader(IssuedFor(2))
       /\ gq[r1].user # NoUser /\ gq[r1].user.id = 1
       /\ gq[r2].user # NoUser /\ gq[r2].user.id = 2

\* the token string of a header is not one this server signed
NotSigned(h) ==
    /\ ~LacksToken(h)
    /\ \A id \in 1..9 : h # BearerHeader(IssuedFor(id))

\* C16: for every request whose token fails verification (expired, bad
\* signature or garbage), the Access Guard forwards the failure to the
\* error boundary, the request is answered with a non-2xx status, and the
\* protected handler is never invoked.
C16_BadTokenForwarded ==
    \A r \in Reqs :
       (/\ gq[r].route = "single" /\ gq[r].pc # "authorize"
        /\ (NotSigned(gq[r].header) \/ gq[r].error = TokenExpired)) =>
          /\ gq[r].pc = "done" /\ gq[r].forwarded
          /\ gq[r].res.status >= 300
          /\ ~gq[r].handled

\* a forged token and an expired token were both answered 500 by the
\* error boundary
C16_Witness ==
    \E r1, r2 \in Reqs :
       /\ gq[r1].route = "single" /\ gq[r1].forwarded
       /\ gq[r1].header = BearerHeader(Forged(1))
       /\ gq[r1].res.status = 500 /\ ~gq[r1].handled
       /\ gq[r2].route = "single" /\ gq[r2].forwarded
       /\ gq[r2].error = TokenExpired
       /\ gq[r2].res.status = 500 /\ ~gq[r2].handled

\* C17 (as claimed): GET /users/ is a protected route: a request carrying
\* a valid token of an existing user receives 200 with that user's own
\* profile, and a request with no or an invalid token receives 401.
C17_ProfileProtected ==
    \A r \in Reqs :
       (gq[r].route = "profile" /\ gq[r].pc = "done") =>
          /\ \A u \in users :
                gq[r].header = BearerHeader(IssuedFor(u.id)) =>
                   (/\ gq[r].res.status = 200
                    /\ gq[r].res.body.data.user.id = u.id)
          /\ (LacksToken(gq[r].header) \/ NotSigned(gq[r].header)) =>
                gq[r].res.status = 401

Joined(msgs) ==
    CASE msgs = <<"email is required">> -> "email is required"
      [] msgs = <<"username is required", "invalid password">> ->
            "username is required, invalid password"
      [] OTHER -> "Internal Server Error"

\* C19: the error boundary answers an invalid-identifier-format error
\* (CastError) with 404, a unique-constraint violation (code 11000) with
\* 400, a schema validation failure (ValidationError) with 400 and its
\* field messages joined into one string, and any unrecognized error with
\* 500.
C19_ErrorMapping ==
    answer # NoResponse =>
       /\ (thrown.name = "CastError" /\ thrown.code # 11000) =>
             answer.status = 404
       /\ (thrown.code = 11000 /\ thrown.name # "ValidationError") =>
             answer.status = 400
       /\ thrown.name = "ValidationError" =>
             (/\ answer.status = 400
              /\ answer.body.message = Joined(thrown.errors))
       /\ (/\ thrown.name \notin {"CastError", "ValidationError"}
           /\ thrown.code # 11000 /\ thrown.statusCode = 0) =>
             answer.status = 500

\* a validation failure on two fields was answered 400 with both messages
C19_Witness ==
    /\ thrown # NoError /\ thrown.name = "ValidationError"
    /\ Len(thrown.errors) = 2
    /\ answer.status = 400
    /\ answer.body.message = "username is required, invalid password"

(***************************************************************************)
(* Properties of every response.                                           *)
(***************************************************************************)
\* an error response carries success:false and a message
ErrorShaped(res) ==
    res.status >= 300 =>
       /\ "success" \in DOMAIN res.body /\ res.body.success = FALSE
       /\ "message" \in DOMAIN res.body /\ res.body.message # ""

\* C20 (as claimed): every error (non-2xx) response produced by the
\* system, whether sent by the error boundary, by the Access Guard or
\* directly by a sign-up, sign-in or user handler, carries success:false
\* and a human-readable message.
C20_ErrorResponsesShaped ==
    /\ \A r \in Reqs : ErrorShaped(rq[r].res) /\ ErrorShaped(gq[r].res)
    /\ ErrorShaped(answer)

(***************************************************************************)
(* Properties of sign-out and of the startup (ServerSpec).                 *)
(***************************************************************************)
SignedOut ==
    [status |-> 200,
     body |-> [message |-> "User signed out successfully", success |-> TRUE]]

\* C21 (as claimed): every POST /auth/sign-out request eventually receives
\* a success response ("User signed out successfully", success:true) while
\* the server changes no state.
C21_SignoutAnswered ==
    \A r \in Reqs : (rq[r].kind = "signout") ~> (rq[r].res = SignedOut)

\* C23 (as claimed): the database connection is established before the
\* server accepts requests: no request handler runs while the connection
\* attempt started at startup has not yet completed.
C23_ConnectedBeforeServing ==
    [][(rq' # rq \/ gq' # gq) => db \notin {"disconnected", "connecting"}]_vars

(***************************************************************************)
(* Properties of the guard and sign-in together (AccessSpec).              *)
(***************************************************************************)
\* a step of the Access Guard or of a sign-in request
GuardOrSigninStep ==
    \/ gq' # gq
    \/ \E r \in Reqs : rq'[r] # rq[r] /\ rq'[r].kind = "signin"

\* C22: neither the Access Guard nor sign-in ever modifies the user store:
\* after any sequence of guard checks and sign-in attempts, whatever their
\* outcome, the set of stored users and their fields is unchanged.
C22_StoreUntouched ==
    [][GuardOrSigninStep => (users' = users /\ pending' = pending)]_vars

\* a guard check that attached a user and a sign-in answered 200 have both
\* completed, and the store holds the two users with their hashes
C22_Witness ==
    \E r1, r2 \in Reqs :
       /\ gq[r1].route = "single" /\ gq[r1].pc = "done" /\ gq[r1].handled
       /\ rq[r2].kind = "signin" /\ rq[r2].res.status = 200
       /\ users = KnownUsers
       /\ \A u \in users : u.password # <<>>

(***************************************************************************)
(* Further properties of the error boundary (ErrorSpec).                   *)
(***************************************************************************)
\* C24: an error forwarded to the error boundary with its own statusCode
\* and message (and matching none of CastError, code 11000,
\* ValidationError) is answered with exactly that status code and message.
C24_OwnStatusAndMessage ==
    (/\ answer # NoResponse
     /\ thrown.name \notin {"CastError", "ValidationError"}
     /\ thrown.code # 11000
     /\ thrown.statusCode # 0 /\ thrown.message # "") =>
       /\ answer.status = thrown.statusCode
       /\ answer.body = [success |-> FALSE, message |-> thrown.message]

\* an error with statusCode 409 and message "boom" was answered 409 "boom"
C24_Witness ==
    /\ thrown # NoError /\ thrown.name = "Error" /\ thrown.code = 0
    /\ thrown.statusCode = 409 /\ thrown.message = "boom"
    /\ answer = [status |-> 409,
                 body |-> [success |-> FALSE, message |-> "boom"]]

(***************************************************************************)
(* Further properties of the subscription lifecycle (SubSpec).             *)
(***************************************************************************)
\* C25 (as claimed): on every persist of a subscription, the pre-save hook
\* signals completion (calls next) exactly once, and it does so only after
\* both the renewal-date assignment and the status-downgrade check have
\* been applied.
C25_NextCalledOnce ==
    [][Persisted => nextCalls' = 1]_vars

\* C27: the pre-save hook changes a subscription's status only to
\* "inactive" and only when the renewal date is strictly earlier than the
\* current time: when the renewal date equals or is later than now the
\* status is left unchanged, and when it is earlier any status including
\* "cancelled" is overwritten with "inactive".
C27_StatusOnlyDowngraded ==
    [][Persisted =>
          /\ doc'.renewalDate < now =>
                (doc'.status = "inactive" /\ store'.status = "inactive")
          /\ doc'.renewalDate >= now =>
                (doc'.status = doc.status /\ store'.status = doc.status)]_vars

\* a cancelled subscription that renews today was persisted and is still
\* cancelled
C27_Witness ==
    /\ saves >= 1 /\ saveError = "none" /\ doc.state = "persisted"
    /\ doc.renewalDate = now /\ now > 0
    /\ doc.status = "cancelled" /\ store.status = "cancelled"

(***************************************************************************)
(* Further properties of sign-up and sign-in (AuthFairSpec, AuthSpec).     *)
(***************************************************************************)
\* C26 (as claimed): every transaction started by a sign-up or sign-in
\* request is eventually either committed or aborted and its session
\* ended, on every path of the handler: success, early 400 return
\* (existing user, user not found, invalid password) and error.
C26_TransactionsClosed ==
    \A r \in Reqs :
       (rq[r].kind \in {"signup", "signin"}) ~>
          (/\ session[r].txn \in {"TRANSACTION_COMMITTED",
                                  "TRANSACTION_ABORTED"}
           /\ session[r].ended)

\* C28: a token is only ever issued for a user identifier after that
\* user's credentials were established in the same request: sign-in issues
\* a token for user u only if the supplied plaintext verified against u's
\* stored hash, and sign-up issues a token only for the user record it has
\* just created.
C28_TokenAfterCredentials ==
    \A r \in Reqs :
       rq[r].token # NoToken =>
          /\ rq[r].user # NoUser
          /\ rq[r].token.userId = rq[r].user.id
          /\ rq[r].kind = "signin" =>
                (/\ rq[r].body.password # Undefined
                 /\ Verifies(rq[r].body.password, rq[r].user.password)
                 /\ rq[r].user \in users)
          /\ rq[r].kind = "signup" =>
                (/\ rq[r].user.id = r
                 /\ rq[r].user.password = rq[r].hashedPassword
                 /\ (rq[r].user \in pending[r] \/ rq[r].user \in users
                       \/ rq[r].error = CommitFailed))

\* a sign-up was given a token for its own new user, and a sign-in
\* a token for the user whose password it supplied
C28_Witness ==
    \E r1, r2 \in Reqs :
       /\ rq[r1].kind = "signup" /\ rq[r1].res.status = 201
       /\ rq[r1].res.body.token = [userId |-> r1, key |-> jwtSecret]
       /\ rq[r2].kind = "signin" /\ rq[r2].res.status = 200
       /\ rq[r2].res.body.data.token = [userId |-> r1, key |-> jwtSecret]

=============================================================================
